---- MODULE Spec2Model ----
(***************************************************************************)
(* Bridged type resolution of lib/SIL/Bridging.cpp:                        *)
(* TypeConverter::getBridgedInputType, getBridgedResultType,               *)
(* getLoweredBridgedType and getLoweredCBridgedType.                       *)
(*                                                                         *)
(* A type is a record [k, a, sub, lab]:                                    *)
(*   k = "nominal"   a = the declaration's name                            *)
(*   k = "optional"  a = the optional kind, sub = <<object type>>          *)
(*   k = "tuple"     sub = element types, lab = element names              *)
(*   k = "metatype" / "exmetatype"  a = representation, sub = <<instance>> *)
(*   k = "function"  a = SIL representation, sub = <<input, result>>       *)
(*   k = "null"      the null Type()                                       *)
(***************************************************************************)
EXTENDS Integers, Sequences, FiniteSets, TLC

VARIABLES missing, rep, pattern, input, entry, suppressOptional,
          pc, i, bridgedFields, changed, rebuilt, diags, hints, ret,
          round, prev

vars == <<missing, rep, pattern, input, entry, suppressOptional,
          pc, i, bridgedFields, changed, rebuilt, diags, hints, ret,
          round, prev>>

\* ---------------------------------------------------------------- bounds
MaxTupleLen == 2
MaxOptDepth == 1

\* ----------------------------------------------------------------- types
Ty(k, a, sub, lab) == [k |-> k, a |-> a, sub |-> sub, lab |-> lab]

NullTy == Ty("null", "", <<>>, <<>>)

Nominal(n) == Ty("nominal", n, <<>>, <<>>)

OptionalTypeGet(optKind, ty) == Ty("optional", optKind, <<ty>>, <<>>)

MetatypeTypeGet(instance, r) == Ty("metatype", r, <<instance>>, <<>>)

ExistentialMetatypeTypeGet(instance, r) == Ty("exmetatype", r, <<instance>>, <<>>)

FunctionTypeGet(in, res, r) == Ty("function", r, <<in, res>>, <<>>)

TupleTypeElt(name, ty) == [name |-> name, ty |-> ty]

TupleTypeGet(fields) ==
    Ty("tuple", "",
       [j \in 1..Len(fields) |-> fields[j].ty],
       [j \in 1..Len(fields) |-> fields[j].name])

getElement(tuple, j) == TupleTypeElt(tuple.lab[j], tuple.sub[j])

\* Mutation: the rebuilt element loses its name.
getWithType_M2(elt, ty) == TupleTypeElt("", ty)

getWithType(elt, ty) == TupleTypeElt(elt.name, ty)

OptionalKinds == {"Optional", "ImplicitlyUnwrappedOptional"}

getAnyOptionalObjectType(t) == IF t.k = "optional" THEN t.sub[1] ELSE NullTy

getAnyNominal(t) == IF t.k = "nominal" THEN t.a ELSE "none"

ClassDecls == {"C", "NSString", "NSArray", "NSDictionary", "NSSet"}

getClassOrBoundGenericClass(t) == t.k = "nominal" /\ t.a \in ClassDecls

isObjCExistentialType(t) == t.k = "nominal" /\ t.a = "ObjCProto"

\* ------------------------------------------------- type/declaration registry
NativeDecls == {"String", "Bool", "Array", "Dictionary", "Set"}

BridgedDecls == {"NSString", "ObjCBool", "NSArray", "NSDictionary", "NSSet"}

RegistryDecls == NativeDecls \cup BridgedDecls

Lookup(miss, n) == IF n \in miss THEN NullTy ELSE Nominal(n)

getStringType(miss) == Lookup(miss, "String")
getBoolType(miss) == Lookup(miss, "Bool")
getArrayDecl(miss) == IF "Array" \in miss THEN "null" ELSE "Array"
getDictionaryDecl(miss) == IF "Dictionary" \in miss THEN "null" ELSE "Dictionary"
getSetDecl(miss) == IF "Set" \in miss THEN "null" ELSE "Set"
getNSStringType(miss) == Lookup(miss, "NSString")
getObjCBoolType(miss) == Lookup(miss, "ObjCBool")
getNSArrayType(miss) == Lookup(miss, "NSArray")
getNSDictionaryType(miss) == Lookup(miss, "NSDictionary")
getNSSetType(miss) == Lookup(miss, "NSSet")

\* ------------------------------------------------------ abstraction patterns
\* clang = "none": the pattern carries no Clang type.
ClangBoolKinds == {"_Bool", "BOOL", "Boolean"}

Pattern(c, elts) == [clang |-> c, elts |-> elts]

Opaque == Pattern("none", <<>>)

isClangType(p) == p.clang # "none"

getClangType(p) == p.clang

\* Mutation: the ObjC BOOL typedef counts as a boolean type.
isBooleanType_M7(c) == c \in {"_Bool", "BOOL"}

isBooleanType(c) == c = "_Bool"

getTupleElementType(p, j) ==
    IF j \in DOMAIN p.elts THEN Pattern(p.elts[j], <<>>) ELSE Opaque

\* ----------------------------------------------------------- representations
NativeReps == {"Thick", "Thin", "Method", "WitnessMethod"}

ForeignReps == {"CFunctionPointer", "ObjCMethod", "Block"}

Representations == NativeReps \cup ForeignReps

Purposes == {"ForArgument", "ForResult", "ForNonOptionalResult"}

\* --------------------------------------------------- getLoweredCBridgedType
getLoweredCBridgedType(miss, t, clangTy, bridgedCollectionsAreOptional) ==
    LET wrap(bridgedTy) ==
            IF bridgedCollectionsAreOptional /\ clangTy # "none"
            THEN OptionalTypeGet("Optional", bridgedTy)
            ELSE bridgedTy
    IN
    IF getStringType(miss) # NullTy /\ t = getStringType(miss)
    THEN wrap(getNSStringType(miss))
    ELSE IF getBoolType(miss) # NullTy /\ t = getBoolType(miss)
    THEN IF clangTy # "none" /\ isBooleanType(clangTy)
         THEN t
         ELSE getObjCBoolType(miss)
    ELSE IF t.k = "metatype" /\ getClassOrBoundGenericClass(t.sub[1])
    THEN MetatypeTypeGet(t.sub[1], "ObjC")
    ELSE IF t.k = "exmetatype" /\ isObjCExistentialType(t.sub[1])
    THEN ExistentialMetatypeTypeGet(t.sub[1], "ObjC")
    ELSE IF t.k = "function"
    THEN IF t.a = "Thick"
         THEN FunctionTypeGet(t.sub[1], t.sub[2], "Block")
         ELSE t
    ELSE IF getArrayDecl(miss) # "null" /\ getAnyNominal(t) = getArrayDecl(miss)
    THEN wrap(getNSArrayType(miss))
    ELSE IF getDictionaryDecl(miss) # "null" /\ getAnyNominal(t) = getDictionaryDecl(miss)
    THEN wrap(getNSDictionaryType(miss))
    ELSE IF getSetDecl(miss) # "null" /\ getAnyNominal(t) = getSetDecl(miss)
    THEN wrap(getNSSetType(miss))
    ELSE t

\* ---------------------------------------------------- getLoweredBridgedType
\* Mutation: witness methods are missing from the native cases.
needsBridging_M1(r) == r \notin {"Thick", "Thin", "Method"}

needsBridging(r) == r \in ForeignReps

\* Mutation: every purpose but the non-optional result asks for optionals.
collectionsHint_M4(purpose) == purpose # "ForNonOptionalResult"

collectionsHint(purpose) == purpose = "ForResult"

\* Mutation: the optional is rebuilt around t instead of ty.
getLoweredBridgedType_M3(miss, p, t, r, purpose) ==
    IF ~needsBridging(r)
    THEN t
    ELSE LET clangTy == IF isClangType(p) THEN getClangType(p) ELSE "none"
             valueTy == getAnyOptionalObjectType(t)
         IN IF valueTy # NullTy
            THEN LET ty == getLoweredCBridgedType(miss, valueTy, clangTy, FALSE)
                 IN IF ty # NullTy THEN OptionalTypeGet(t.a, t) ELSE ty
            ELSE getLoweredCBridgedType(miss, t, clangTy, collectionsHint(purpose))

\* Mutation: the object type of an optional is bridged with the purpose's hint.
getLoweredBridgedType_M5(miss, p, t, r, purpose) ==
    IF ~needsBridging(r)
    THEN t
    ELSE LET clangTy == IF isClangType(p) THEN getClangType(p) ELSE "none"
             valueTy == getAnyOptionalObjectType(t)
         IN IF valueTy # NullTy
            THEN LET ty == getLoweredCBridgedType(miss, valueTy, clangTy,
                                                  collectionsHint(purpose))
                 IN IF ty # NullTy THEN OptionalTypeGet(t.a, ty) ELSE ty
            ELSE getLoweredCBridgedType(miss, t, clangTy, collectionsHint(purpose))

\* Mutation: a tuple is bridged element by element.
getLoweredBridgedType_M10(miss, p, t, r, purpose) ==
    LET one(u, q) ==
            LET clangTy == IF isClangType(q) THEN getClangType(q) ELSE "none"
                valueTy == getAnyOptionalObjectType(u)
            IN IF valueTy # NullTy
               THEN LET ty == getLoweredCBridgedType(miss, valueTy, clangTy, FALSE)
                    IN IF ty # NullTy THEN OptionalTypeGet(u.a, ty) ELSE ty
               ELSE getLoweredCBridgedType(miss, u, clangTy, collectionsHint(purpose))
    IN IF ~needsBridging(r)
       THEN t
       ELSE IF t.k = "tuple"
       THEN Ty("tuple", "",
               [j \in DOMAIN t.sub |-> one(t.sub[j], getTupleElementType(p, j))], t.lab)
       ELSE one(t, p)

getLoweredBridgedType(miss, p, t, r, purpose) ==
    IF ~needsBridging(r)
    THEN t
    ELSE LET clangTy == IF isClangType(p) THEN getClangType(p) ELSE "none"
             valueTy == getAnyOptionalObjectType(t)
         IN IF valueTy # NullTy
            THEN LET ty == getLoweredCBridgedType(miss, valueTy, clangTy, FALSE)
                 IN IF ty # NullTy THEN OptionalTypeGet(t.a, ty) ELSE ty
            ELSE getLoweredCBridgedType(miss, t, clangTy, collectionsHint(purpose))

\* The hint handed to getLoweredCBridgedType by that call, if it makes one.
hintsOf(t, r, purpose) ==
    IF ~needsBridging(r) THEN <<>>
    ELSE IF getAnyOptionalObjectType(t) # NullTy THEN <<FALSE>>
    ELSE <<collectionsHint(purpose)>>

\* OptionalType::get applied to a null Type.
OptionalOfNull(t) == t.k = "optional" /\ t.sub[1] = NullTy

\* ------------------------------------------------------------------ inputs
FunctionReps == {"Thick", "Thin", "Method", "WitnessMethod",
                 "CFunctionPointer", "ObjCMethod", "Block"}

NominalNames == RegistryDecls \cup {"Int", "C", "ObjCProto", "SwiftProto"}

BaseTypes ==
    {Nominal(n) : n \in NominalNames}
    \cup {MetatypeTypeGet(Nominal(n), r) : n \in {"C", "Int"}, r \in {"Thick", "ObjC"}}
    \cup {ExistentialMetatypeTypeGet(Nominal(n), r) :
            n \in {"ObjCProto", "SwiftProto"}, r \in {"Thick", "ObjC"}}
    \cup {FunctionTypeGet(Nominal("String"), Nominal("Bool"), r) : r \in FunctionReps}

RECURSIVE OptionalClosure(_, _)
OptionalClosure(S, d) ==
    IF d = 0 THEN S
    ELSE LET inner == OptionalClosure(S, d - 1)
         IN S \cup {OptionalTypeGet(ok, t) : ok \in OptionalKinds, t \in inner}

NonTupleTypes == OptionalClosure(BaseTypes, MaxOptDepth)

NestedTuple ==
    TupleTypeGet(<<TupleTypeElt("", Nominal("String")), TupleTypeElt("", Nominal("Bool"))>>)

TupleElementTypes ==
    {Nominal("String"), Nominal("Bool"), Nominal("Int"),
     OptionalTypeGet("Optional", Nominal("Array")), NestedTuple}

LabelNames == <<"a", "b", "c", "d">>

\* A canonical one-element tuple is labelled.
TupleLabels(n) ==
    {[j \in 1..n |-> LabelNames[j]]} \cup (IF n = 1 THEN {} ELSE {[j \in 1..n |-> ""]})

TupleTypes ==
    UNION {{Ty("tuple", "", tys, labs) :
              tys \in [1..n -> TupleElementTypes], labs \in TupleLabels(n)} :
           n \in 0..MaxTupleLen}

InputTypes == NonTupleTypes \cup TupleTypes

RECURSIVE Mentions(_)
Mentions(t) ==
    (IF t.k = "nominal" THEN {t.a} ELSE {})
    \cup UNION {Mentions(t.sub[j]) : j \in DOMAIN t.sub}

\* A type exists only if the registry has the declarations it names.
WellFormed(miss, t) == Mentions(t) \cap miss = {}

ClangKindsFor(t) ==
    IF t = Nominal("Bool") THEN {"none"} \cup ClangBoolKinds
    ELSE IF t.k = "tuple" THEN {"none"}
    ELSE {"none", "other"}

PatternsFor(t) ==
    IF t.k = "tuple"
    THEN {Pattern("none", e) :
            e \in {f \in [DOMAIN t.sub -> {"none", "other"} \cup ClangBoolKinds] :
                     \A j \in DOMAIN t.sub : f[j] \in ClangKindsFor(t.sub[j])}}
    ELSE {Pattern(c, <<>>) : c \in ClangKindsFor(t)}

\* Everything is available, or one declaration is not.
Registries == {{}} \cup {{n} : n \in RegistryDecls}

\* ------------------------------------------------------------------- state
Init ==
    /\ missing \in Registries
    /\ rep \in Representations
    /\ input \in {t \in InputTypes : WellFormed(missing, t)}
    /\ pattern \in PatternsFor(input)
    /\ entry \in {"input", "result"}
    /\ suppressOptional \in (IF entry = "result" THEN BOOLEAN ELSE {FALSE})
    /\ pc = "start"
    /\ i = 1
    /\ bridgedFields = <<>>
    /\ changed = FALSE
    /\ rebuilt = FALSE
    /\ diags = <<>>
    /\ hints = <<>>
    /\ ret = NullTy
    /\ round = 1
    /\ prev = NullTy

\* The type the current call is given: the input, then the type it returned.
arg == IF round = 1 THEN input ELSE prev

diagnose(t) == Append(diags, t)

\* getBridgedInputType, tuple input: entering the loop over the elements.
InputTupleEnter ==
    /\ pc = "start" /\ entry = "input" /\ arg.k = "tuple"
    /\ pc' = "loop"
    /\ i' = 1
    /\ bridgedFields' = <<>>
    /\ changed' = FALSE
    /\ UNCHANGED <<missing, rep, pattern, input, entry, suppressOptional,
                   rebuilt, diags, hints, ret, round, prev>>

\* One iteration of the loop over the tuple's elements.
InputTupleElement ==
    /\ pc = "loop" /\ i <= Len(arg.sub)
    /\ LET elt == getElement(arg, i)
           bridged == getLoweredBridgedType(missing, getTupleElementType(pattern, i),
                                            elt.ty, rep, "ForArgument")
       IN /\ hints' = hints \o hintsOf(elt.ty, rep, "ForArgument")
          /\ \/ /\ bridged = NullTy
                /\ diags' = diagnose(elt.ty)
                /\ pc' = "aborted"
                /\ UNCHANGED <<i, bridgedFields, changed>>
             \/ /\ bridged # NullTy
                /\ IF bridged # elt.ty
                   THEN /\ changed' = TRUE
                        /\ bridgedFields' = Append(bridgedFields, getWithType(elt, bridged))
                   ELSE /\ changed' = changed
                        /\ bridgedFields' = Append(bridgedFields, elt)
                /\ i' = i + 1
                /\ UNCHANGED <<pc, diags>>
    /\ UNCHANGED <<missing, rep, pattern, input, entry, suppressOptional,
                   rebuilt, ret, round, prev>>

\* After the loop: the input itself, or a rebuilt tuple.
InputTupleReturn ==
    /\ pc = "loop" /\ i > Len(arg.sub)
    /\ IF ~changed
       THEN ret' = arg /\ rebuilt' = FALSE
       ELSE ret' = TupleTypeGet(bridgedFields) /\ rebuilt' = TRUE
    /\ pc' = "done"
    /\ UNCHANGED <<missing, rep, pattern, input, entry, suppressOptional,
                   i, bridgedFields, changed, diags, hints, round, prev>>

\* getBridgedInputType, non-tuple input.
InputNonTuple ==
    /\ pc = "start" /\ entry = "input" /\ arg.k # "tuple"
    /\ LET loweredBridgedType ==
               getLoweredBridgedType(missing, pattern, arg, rep, "ForArgument")
       IN /\ hints' = hints \o hintsOf(arg, rep, "ForArgument")
          /\ \/ /\ loweredBridgedType = NullTy
                /\ diags' = diagnose(arg)
                /\ pc' = "aborted"
                /\ ret' = ret
             \/ /\ loweredBridgedType # NullTy
                /\ ret' = loweredBridgedType
                /\ pc' = "done"
                /\ diags' = diags
    /\ UNCHANGED <<missing, rep, pattern, input, entry, suppressOptional,
                   i, bridgedFields, changed, rebuilt, round, prev>>

\* Mutation: the two result purposes are swapped.
resultPurpose_M6(suppress) == IF suppress THEN "ForResult" ELSE "ForNonOptionalResult"

resultPurpose(suppress) == IF suppress THEN "ForNonOptionalResult" ELSE "ForResult"

\* getBridgedResultType.  OptionalType::get on a null Type is undefined: the
\* process dies there, or a type wrapping the null pointer comes back.
BridgedResult ==
    /\ pc = "start" /\ entry = "result"
    /\ LET purpose == resultPurpose(suppressOptional)
           loweredType == getLoweredBridgedType(missing, pattern, arg, rep, purpose)
       IN /\ hints' = hints \o hintsOf(arg, rep, purpose)
          /\ \/ /\ OptionalOfNull(loweredType)
                /\ pc' = "crashed"
                /\ UNCHANGED <<diags, ret>>
             \/ /\ loweredType = NullTy
                /\ diags' = diagnose(arg)
                /\ pc' = "aborted"
                /\ ret' = ret
             \/ /\ loweredType # NullTy
                /\ ret' = loweredType
                /\ pc' = "done"
                /\ diags' = diags
    /\ UNCHANGED <<missing, rep, pattern, input, entry, suppressOptional,
                   i, bridgedFields, changed, rebuilt, round, prev>>

\* The caller bridges the returned type again, same representation, pattern
\* and purpose.
Rebridge ==
    /\ pc = "done" /\ round = 1 /\ ~OptionalOfNull(ret)
    /\ prev' = ret
    /\ round' = 2
    /\ pc' = "start"
    /\ i' = 1
    /\ bridgedFields' = <<>>
    /\ changed' = FALSE
    /\ rebuilt' = FALSE
    /\ hints' = <<>>
    /\ ret' = NullTy
    /\ UNCHANGED <<missing, rep, pattern, input, entry, suppressOptional, diags>>

Next ==
    \/ InputTupleEnter
    \/ InputTupleElement
    \/ InputTupleReturn
    \/ InputNonTuple
    \/ BridgedResult
    \/ Rebridge

Spec == Init /\ [][Next]_vars

\* ------------------------------------------------------------- properties
Finished == pc \in {"done", "aborted", "crashed"}

purposeOf == IF entry = "input" THEN "ForArgument" ELSE resultPurpose(suppressOptional)

clangOf(p) == IF isClangType(p) THEN getClangType(p) ELSE "none"

Counterpart(n) ==
    CASE n = "String" -> "NSString"
      [] n = "Array" -> "NSArray"
      [] n = "Dictionary" -> "NSDictionary"
      [] n = "Set" -> "NSSet"

Collections == {"String", "Array", "Dictionary", "Set"}

\* What the element loop has to produce for element j of the tuple argument.
BridgedElement(j) ==
    getLoweredBridgedType(missing, getTupleElementType(pattern, j), arg.sub[j],
                          rep, "ForArgument")

\* C1: under a native representation (thick, thin, method, witness method)
\* both entry points return the type they were given, whatever its shape, the
\* pattern and suppressOptional, without a diagnostic and without aborting.
C1_NativePassThrough ==
    rep \in NativeReps =>
        /\ pc \notin {"aborted", "crashed"}
        /\ diags = <<>>
        /\ pc = "done" => (ret = arg /\ ~rebuilt)

C1_Witness ==
    /\ rep = "WitnessMethod" /\ pc = "done" /\ round = 1
    /\ entry = "input" /\ input.k = "tuple" /\ Len(input.sub) = 2
    /\ input.sub[1] = Nominal("String") /\ "NSString" \in missing
    /\ ret = input

\* C2: a tuple input whose elements all bridge comes back with as many
\* elements, in the same order, under the same names, element j being the
\* bridged type of element j for the argument purpose; and when no element's
\* bridged type differs, the input itself comes back, not a rebuilt tuple.
C2_TupleStructure ==
    (pc = "done" /\ entry = "input" /\ arg.k = "tuple") =>
        /\ ret.k = "tuple"
        /\ Len(ret.sub) = Len(arg.sub)
        /\ Len(ret.lab) = Len(arg.lab)
        /\ \A j \in 1..Len(arg.sub) :
              /\ ret.lab[j] = arg.lab[j]
              /\ ret.sub[j] = BridgedElement(j)
        /\ (\A j \in 1..Len(arg.sub) : BridgedElement(j) = arg.sub[j])
              => (ret = arg /\ ~rebuilt)

C2_Witness ==
    /\ pc = "done" /\ entry = "input" /\ round = 1 /\ rebuilt
    /\ input.k = "tuple" /\ Len(input.sub) = 2
    /\ input.lab = <<"a", "b">> /\ ret.lab = <<"a", "b">>
    /\ input.sub[1] = Nominal("Int") /\ ret.sub[1] = Nominal("Int")
    /\ input.sub[2] = Nominal("String") /\ ret.sub[2] = Nominal("NSString")

\* C3: bridging is idempotent: bridging the type a call returned again, with
\* the same representation, pattern and purpose, returns that type.
C3_Idempotent ==
    round = 2 =>
        /\ pc \notin {"aborted", "crashed"}
        /\ pc = "done" => ret = prev

C3_Witness ==
    /\ round = 2 /\ pc = "done" /\ entry = "result" /\ ~suppressOptional
    /\ rep \in ForeignReps /\ isClangType(pattern)
    /\ input = Nominal("String")
    /\ prev = OptionalTypeGet("Optional", Nominal("NSString"))
    /\ ret = prev

\* C4 as claimed: under a foreign representation, for a type that is not an
\* optional, the hint handed to getLoweredCBridgedType is
\* (purpose # non-optional result), so TRUE for an argument.
C4_HintAsClaimed ==
    rep \in ForeignReps =>
        /\ (Finished /\ arg.k \notin {"optional", "tuple"})
              => hints = <<purposeOf # "ForNonOptionalResult">>
        /\ (entry = "input" /\ arg.k = "tuple")
              => \A j \in 1..Len(hints) :
                    arg.sub[j].k # "optional" => hints[j] = TRUE

\* C4 amended: the hint is (purpose = result): TRUE for a result, FALSE for
\* an argument and for a non-optional result.
C4_HintIsForResult ==
    rep \in ForeignReps =>
        /\ (Finished /\ arg.k \notin {"optional", "tuple"})
              => hints = <<purposeOf = "ForResult">>
        /\ (entry = "input" /\ arg.k = "tuple")
              => \A j \in 1..Len(hints) :
                    arg.sub[j].k # "optional" => hints[j] = FALSE

C4_Witness ==
    /\ rep \in ForeignReps /\ pc = "done" /\ round = 1
    /\ entry = "input" /\ input = Nominal("String") /\ isClangType(pattern)
    /\ hints = <<FALSE>>
    /\ ret = Nominal("NSString")

\* C5: under a foreign representation, for every purpose and pattern, an
\* optional of kind k around V bridges to an optional of kind k around the
\* leaf mapping of V computed with the hint FALSE: around the foreign object
\* type when V is String, Array, Dictionary or Set, never an optional of an
\* optional; when V has no mapping the whole call has none.
C5_OptionalTransparency ==
    (rep \in ForeignReps /\ Finished /\ arg.k = "optional") =>
        LET V == arg.sub[1]
            W == getLoweredCBridgedType(missing, V, clangOf(pattern), FALSE)
        IN /\ pc # "crashed"
           /\ (V.k = "nominal" /\ V.a \in Collections)
                 => W = Lookup(missing, Counterpart(V.a))
           /\ pc = "aborted" <=> W = NullTy
           /\ pc = "aborted" => diags = <<arg>>
           /\ pc = "done" => ret = OptionalTypeGet(arg.a, W)

C5_Witness ==
    /\ rep \in ForeignReps /\ pc = "done" /\ round = 1
    /\ entry = "result" /\ ~suppressOptional /\ isClangType(pattern)
    /\ input = OptionalTypeGet("ImplicitlyUnwrappedOptional", Nominal("Array"))
    /\ ret = OptionalTypeGet("ImplicitlyUnwrappedOptional", Nominal("NSArray"))

\* C6: getBridgedResultType under a foreign representation, given a String,
\* Array, Dictionary or Set that is not optional, returns the optional of the
\* foreign object type exactly when suppressOptional is false and the pattern
\* carries a Clang type, and the bare foreign object type otherwise.
C6_ResultOptionality ==
    (rep \in ForeignReps /\ entry = "result" /\ Finished
       /\ arg.k = "nominal" /\ arg.a \in Collections
       /\ Counterpart(arg.a) \notin missing) =>
        /\ pc = "done"
        /\ ret = IF ~suppressOptional /\ isClangType(pattern)
                 THEN OptionalTypeGet("Optional", Nominal(Counterpart(arg.a)))
                 ELSE Nominal(Counterpart(arg.a))

C6_Witness ==
    /\ rep \in ForeignReps /\ entry = "result" /\ pc = "done" /\ round = 1
    /\ input = Nominal("Dictionary") /\ suppressOptional /\ isClangType(pattern)
    /\ ret = Nominal("NSDictionary")

\* C7: under a foreign representation Bool comes back unchanged when the
\* pattern's Clang type is a genuine boolean, and becomes the ObjC boolean
\* for every other Clang type and for no Clang type, whatever the purpose;
\* it is never wrapped in an optional.
C7_Bool ==
    (rep \in ForeignReps /\ Finished /\ arg = Nominal("Bool")) =>
        IF clangOf(pattern) = "_Bool"
        THEN pc = "done" /\ ret = Nominal("Bool")
        ELSE IF "ObjCBool" \notin missing
        THEN pc = "done" /\ ret = Nominal("ObjCBool")
        ELSE pc = "aborted"

C7_Witness ==
    /\ rep \in ForeignReps /\ pc = "done" /\ round = 1
    /\ entry = "result" /\ ~suppressOptional
    /\ input = Nominal("Bool") /\ clangOf(pattern) = "BOOL"
    /\ ret = Nominal("ObjCBool")

\* C8 as claimed: a call that returns a type has emitted no diagnostic; a
\* call that does not return has emitted exactly one, naming the first tuple
\* element (or the whole type) without a bridged type, has processed no
\* later element and has returned nothing.
C8_OneDiagnosticPerFailure ==
    /\ pc \in {"start", "loop", "done"} => diags = <<>>
    /\ pc \in {"aborted", "crashed"} =>
          /\ Len(diags) = 1
          /\ ret = NullTy
          /\ IF entry = "input" /\ arg.k = "tuple"
             THEN /\ diags[1] = arg.sub[i]
                  /\ BridgedElement(i) = NullTy
                  /\ Len(bridgedFields) = i - 1
                  /\ \A j \in 1..(i - 1) : BridgedElement(j) # NullTy
             ELSE diags[1] = arg

\* C9 as claimed: an unavailable lookup is "no mapping": OptionalType::get is
\* never applied to a null type, and a String, Array, Dictionary or Set whose
\* foreign counterpart is unavailable has no bridged type for every hint and
\* every pattern.
C9_UnavailableIsNoMapping ==
    /\ pc # "crashed"
    /\ pc = "done" => ~OptionalOfNull(ret)
    /\ (rep \in ForeignReps /\ Finished
          /\ arg.k = "nominal" /\ arg.a \in Collections
          /\ Counterpart(arg.a) \in missing) => pc = "aborted"

\* C10: a tuple that reaches getLoweredBridgedType whole, as a result or as
\* an element of an input tuple, comes back unchanged under every foreign
\* representation, whatever it contains, and is no failure.
C10_TupleAsAWhole ==
    rep \in ForeignReps =>
        /\ (entry = "result" /\ arg.k = "tuple" /\ Finished)
              => (pc = "done" /\ ret = arg /\ diags = <<>>)
        /\ (entry = "input" /\ arg.k = "tuple" /\ pc = "done")
              => \A j \in 1..Len(arg.sub) :
                    arg.sub[j].k = "tuple" => ret.sub[j] = arg.sub[j]
        /\ (entry = "input" /\ arg.k = "tuple" /\ pc = "aborted")
              => arg.sub[i].k # "tuple"

C10_Witness ==
    /\ rep \in ForeignReps /\ pc = "done" /\ round = 1
    /\ entry = "input" /\ input.k = "tuple" /\ Len(input.sub) = 2
    /\ input.sub[1] = NestedTuple /\ ret.sub[1] = NestedTuple
    /\ input.sub[2] = Nominal("Bool") /\ ret.sub[2] = Nominal("ObjCBool")

====
